---- MODULE Spec2Model ----
(***************************************************************************)
(* Sustained Radiation Events (SREs): model of my_functions.py (reshape,   *)
(* count_and_replace, count_occurrences, compute_SREs) and of the grid     *)
(* sweep of Get_SREs_maps.py.                                              *)
(*                                                                         *)
(* Arrays are functions over 0..n-1, indexed as in the Python source.      *)
(* Irradiance values are non-negative integers; the missing value (NaN) is *)
(* the negative marker NaN.  Thresholds are kept multiplied by 100, so     *)
(* that numpy's linearly interpolated percentile is exact integer          *)
(* arithmetic: value > threshold is 100 * value > threshold100.            *)
(***************************************************************************)
EXTENDS Integers, Sequences, FiniteSets, TLC

\* ------------------------------------------------------------ constants
DaysPerYear == 365          \* reshape: len % 365, (n_years, 365)
MinRunFloor == 3            \* compute_SREs: SREs_all_years < 3 -> 0
MapPercentiles == <<5, 95>> \* Get_SREs_maps.py: percentiles
MapMinLength == 3           \* Get_SREs_maps.py: min_length
MapMaxLength == 10          \* Get_SREs_maps.py: max_length

\* ------------------------------------------------------------ bounds
MaxYears == 4               \* longest series: MaxYears years
WinLen == 5                 \* days of a series that differ from the base value
MaxLen == 7                 \* longest binary mask given to the run encoder
MaxBucket == 4              \* largest max_length given to the histogram alone
Base == 5                   \* irradiance of an ordinary day
NumLat == 1                 \* grid rows of the swept field
NumLon == 2                 \* grid columns of the swept field
MaxSeasonYears == 15        \* most years given to get_seasons_masks

Peak == Base + 2            \* irradiance of an unusually bright day
NaN == 0 - 1                \* the missing value
IsNaN(v) == v < 0

Size(a) == Cardinality(DOMAIN a)
Min(S) == CHOOSE x \in S : \A y \in S : x <= y
Empty == <<>>

\* ------------------------------------------------------------ reshape
\* reshape raises ValueError exactly when the length is no multiple of 365.
reshape_raises(array_to_reshape) == Size(array_to_reshape) % DaysPerYear # 0

\* as reshape, but filled column by column
reshape_columns(array_to_reshape) ==
  LET n_years == Size(array_to_reshape) \div DaysPerYear
  IN [y \in 0..(n_years - 1) |->
        [d \in 0..(DaysPerYear - 1) |-> array_to_reshape[y + n_years * d]]]

\* np.reshape(array, (n_years, 365)): row y, column d is array[365*y + d].
reshape(array_to_reshape) ==
  LET n_years == Size(array_to_reshape) \div DaysPerYear
  IN [y \in 0..(n_years - 1) |->
        [d \in 0..(DaysPerYear - 1) |-> array_to_reshape[DaysPerYear * y + d]]]

\* ------------------------------------------------------------ count_and_replace
\* inner while loop of the first pass: the number of consecutive ones from j on
RECURSIVE ConsecutiveOnes(_, _)
ConsecutiveOnes(arr, j) ==
  IF j < Size(arr) /\ arr[j] = 1 THEN 1 + ConsecutiveOnes(arr, j + 1) ELSE 0

\* first pass: result[i] = count for every i with arr[i] == 1
CountPass(arr) ==
  [i \in DOMAIN arr |-> IF arr[i] = 1 THEN ConsecutiveOnes(arr, i) ELSE 0]

\* as InnerExamined, but only from the first index of a run: the run is skipped
InnerExamined_skipping(arr, i) ==
  IF arr[i] = 1 /\ (i = 0 \/ arr[i - 1] # 1)
  THEN {j \in (i + 1)..(i + ConsecutiveOnes(arr, i)) : j < Size(arr)}
  ELSE {}

\* the indices j whose arr[j] the inner while loop reads, for index i of the
\* for loop: i+1, ..., up to the first j with arr[j] # 1, while j < len(arr)
InnerExamined(arr, i) ==
  IF arr[i] = 1
  THEN {j \in (i + 1)..(i + ConsecutiveOnes(arr, i)) : j < Size(arr)}
  ELSE {}

\* how often the first pass reads arr[j] in its inner while loop, over the
\* whole for loop
CountingVisits(arr) ==
  [j \in DOMAIN arr |-> Cardinality({i \in DOMAIN arr : j \in InnerExamined(arr, i)})]

\* as ZeroSlice, but the last day of the run is not zeroed
ZeroSlice_short(result, i) ==
  [k \in DOMAIN result |-> IF k >= i + 1 /\ k < i + result[i] - 1 THEN 0 ELSE result[k]]

\* result[i+1 : i+result[i]] = 0
ZeroSlice(result, i) ==
  [k \in DOMAIN result |-> IF k >= i + 1 /\ k < i + result[i] THEN 0 ELSE result[k]]

\* second pass, from position i: the else branch (i += 1) is taken up to the
\* next index with arr[i] == 1 and result[i] > 0, where the slice after it is
\* zeroed and i jumps over the run.
RECURSIVE ReplacePass(_, _, _)
ReplacePass(arr, result, i) ==
  LET hits == {k \in i..(Size(arr) - 1) : arr[k] = 1 /\ result[k] > 0}
  IN IF hits = {} THEN result
     ELSE LET s == Min(hits)
          IN ReplacePass(arr, ZeroSlice(result, s), s + result[s])

\* as count_and_replace, but every year is encoded on its own: a run ends with
\* the year
count_and_replace_yearly(arr) ==
  [i \in DOMAIN arr |->
     IF arr[i] = 1 /\ (i % DaysPerYear = 0 \/ arr[i - 1] # 1)
     THEN Min({ConsecutiveOnes(arr, i), DaysPerYear - (i % DaysPerYear)})
     ELSE 0]

count_and_replace(arr) == ReplacePass(arr, CountPass(arr), 0)

\* ------------------------------------------------------------ count_occurrences
\* as Tally, but a value equal to min_length is not counted
RECURSIVE Tally_exclusive(_, _, _, _)
Tally_exclusive(arr, k, min_length, max_length) ==
  IF k = 0 THEN [v \in 0..max_length |-> 0]
  ELSE LET result == Tally_exclusive(arr, k - 1, min_length, max_length)
           val == arr[k - 1]
       IN IF min_length < val /\ val <= max_length
          THEN [result EXCEPT ![val] = @ + 1]
          ELSE result

\* for val in arr: if min_length <= val <= max_length: result[val] += 1
RECURSIVE Tally(_, _, _, _)
Tally(arr, k, min_length, max_length) ==
  IF k = 0 THEN [v \in 0..max_length |-> 0]
  ELSE LET result == Tally(arr, k - 1, min_length, max_length)
           val == arr[k - 1]
       IN IF min_length <= val /\ val <= max_length
          THEN [result EXCEPT ![val] = @ + 1]
          ELSE result

\* for i in range(2, max_length + 1): result[0] = result[0] - result[i] * (i - 1)
RECURSIVE RemoveFalseZeros(_, _, _)
RemoveFalseZeros(result, i, max_length) ==
  IF i > max_length THEN result
  ELSE RemoveFalseZeros([result EXCEPT ![0] = @ - result[i] * (i - 1)],
                        i + 1, max_length)

count_occurrences(arr, min_length, max_length) ==
  LET result == Tally(arr, Size(arr), min_length, max_length)
  IN IF min_length = 0 THEN RemoveFalseZeros(result, 2, max_length) ELSE result

\* ------------------------------------------------------------ compute_SREs
\* the non-missing values of calendar day d over years 0..y, sorted ascending
RECURSIVE InsertSorted(_, _)
InsertSorted(s, v) ==
  IF s = <<>> THEN <<v>>
  ELSE IF v <= Head(s) THEN <<v>> \o s
  ELSE <<Head(s)>> \o InsertSorted(Tail(s), v)

RECURSIVE ColumnValues(_, _, _)
ColumnValues(reshaped_rsds, d, y) ==
  IF y < 0 THEN <<>>
  ELSE LET v == reshaped_rsds[y][d]
           rest == ColumnValues(reshaped_rsds, d, y - 1)
       IN IF IsNaN(v) THEN rest ELSE InsertSorted(rest, v)

\* numpy's percentile of the sorted values s (linear interpolation), times 100:
\* position q*(m-1)/100, value s[lo] + frac * (s[lo+1] - s[lo]); NaN when
\* there is no value.
Percentile100(s, q) ==
  IF s = <<>> THEN NaN
  ELSE LET m == Len(s)
           pos == q * (m - 1)
           lo == pos \div 100
           hi == IF lo + 1 < m THEN lo + 1 ELSE lo
       IN 100 * s[lo + 1] + (pos % 100) * (s[hi + 1] - s[lo + 1])

\* np.nanpercentile(reshaped_rsds, percentile, axis=0)
nanpercentile(reshaped_rsds, percentile) ==
  [d \in 0..(DaysPerYear - 1) |->
     Percentile100(ColumnValues(reshaped_rsds, d, Size(reshaped_rsds) - 1), percentile)]

\* np.tile(thresholds_one_year, n_years)
tile(thresholds_one_year, n_years) ==
  [k \in 0..(DaysPerYear * n_years - 1) |-> thresholds_one_year[k % DaysPerYear]]

\* a comparison with a missing value is False
GreaterThan(value, threshold100) ==
  ~IsNaN(value) /\ ~IsNaN(threshold100) /\ 100 * value > threshold100
\* as LessThan, but the missing value is compared like a number
LessThan_unordered(value, threshold100) == 100 * value < threshold100
LessThan(value, threshold100) ==
  ~IsNaN(value) /\ ~IsNaN(threshold100) /\ 100 * value < threshold100

\* as Exceedance, but percentile 50 takes the 'above' comparison
Exceedance_at50(rsds, thresholds_all_years, percentile) ==
  [k \in DOMAIN rsds |->
     IF percentile >= 50
     THEN (IF GreaterThan(rsds[k], thresholds_all_years[k]) THEN 1 ELSE 0)
     ELSE (IF LessThan(rsds[k], thresholds_all_years[k]) THEN 1 ELSE 0)]

\* rsds_all_years_above: zeros, then 1 where rsds > (or <) thresholds_all_years
Exceedance(rsds, thresholds_all_years, percentile) ==
  [k \in DOMAIN rsds |->
     IF percentile > 50
     THEN (IF GreaterThan(rsds[k], thresholds_all_years[k]) THEN 1 ELSE 0)
     ELSE (IF LessThan(rsds[k], thresholds_all_years[k]) THEN 1 ELSE 0)]

\* as FloorFilter, but runs of two days are kept
FloorFilter_two(SREs_all_years) ==
  [k \in DOMAIN SREs_all_years |->
     IF SREs_all_years[k] < MinRunFloor - 1 THEN 0 ELSE SREs_all_years[k]]

\* SREs_all_years[SREs_all_years < 3] = 0
FloorFilter(SREs_all_years) ==
  [k \in DOMAIN SREs_all_years |->
     IF SREs_all_years[k] < MinRunFloor THEN 0 ELSE SREs_all_years[k]]

\* as OneDay, but with a stride of 364 days
OneDay_stride(SREs_all_years, day, n_years) ==
  [y \in 0..(n_years - 1) |-> SREs_all_years[day + y * (DaysPerYear - 1)]]

\* SREs_all_years[[day + i*365 for i in range(n_years)]]
OneDay(SREs_all_years, day, n_years) ==
  [y \in 0..(n_years - 1) |-> SREs_all_years[day + y * DaysPerYear]]

\* for day in range(365): extreme_events_per_day[day, :] = count_occurrences(...)
PerDay(SREs_all_years, n_years, min_length, max_length) ==
  [day \in 0..(DaysPerYear - 1) |->
     count_occurrences(OneDay(SREs_all_years, day, n_years), min_length, max_length)]

\* one iteration of the loop over the percentiles: output[percentile]
PercentileBody(rsds, reshaped_rsds, percentile, min_length, max_length) ==
  LET n_years == Size(reshaped_rsds)
      thresholds_all_years == tile(nanpercentile(reshaped_rsds, percentile), n_years)
      rsds_all_years_above == Exceedance(rsds, thresholds_all_years, percentile)
      SREs_all_years == FloorFilter(count_and_replace(rsds_all_years_above))
  IN [percentile |-> percentile,
      thresholds_all_years |-> thresholds_all_years,
      rsds_all_years_above |-> rsds_all_years_above,
      SREs_all_years |-> SREs_all_years,
      extreme_events_per_day |-> PerDay(SREs_all_years, n_years, min_length, max_length)]

\* ------------------------------------------------------------ inputs
\* A series of n years and e further days: every day has the value Base,
\* except for a window of WinLen days that starts at calendar day off of each
\* of the first n \div 2 years (at least one) and holds the values w, and
\* except for the missing values: at calendar day off of the first year
\* (missing = "one") or of every year (missing = "all").
MissingKinds == {"none", "one", "all"}
Offsets == {0, 100, DaysPerYear - 2, DaysPerYear - WinLen}
ExtraDays == {0, 1, 270}
YearCounts == {1, 2, MaxYears}
Windows == [0..(WinLen - 1) -> {Base, Peak}]

DayValue(n, off, w, missing, k) ==
  LET copies == IF n \div 2 > 0 THEN n \div 2 ELSE 1
      y == k \div DaysPerYear
      d == k % DaysPerYear
      yw == (k - off) \div DaysPerYear
      dw == (k - off) % DaysPerYear
  IN IF d = off /\ (missing = "all" \/ (missing = "one" /\ y = 0)) THEN NaN
     ELSE IF k >= off /\ yw < copies /\ dw < WinLen THEN w[dw]
     ELSE Base

SeriesOf(n, e, off, w, missing) ==
  [k \in 0..(DaysPerYear * n + e - 1) |-> DayValue(n, off, w, missing, k)]

\* the calls of compute_SREs: <<percentiles, min_length, max_length>>
MapCall == <<MapPercentiles, MapMinLength, MapMaxLength>>
CallChoices == {MapCall, <<<<50>>, 0, 3>>, <<<<60>>, 1, 3>>, <<<<40>>, 2, 4>>}

\* The series and calls that are tried.  The longest series are tried at two
\* offsets and without the percentiles of the maps (which flag nothing when
\* two years share a window); a series of one year (where nothing is ever
\* flagged), a series of a wrong length and a series with missing values are
\* tried at offset 100.
Tried(n, e, off, missing, call) ==
  /\ n = MaxYears => (call # MapCall /\ off \in {100, DaysPerYear - 2})
  /\ n = 1 => (call = MapCall /\ off = 100)
  /\ e # 0 => (off = 100 /\ missing = "none")
  /\ missing # "none" => (n = 2 /\ off = 100)

\* the binary masks of length 0..MaxLen
Masks == UNION {[0..(n - 1) -> {0, 1}] : n \in 0..MaxLen}

\* A field of 2 years and e further days: the series of grid point (lat, lon)
\* has, at calendar day 100 of the first year, a window whose first
\* WinLen - kind days are at Peak, where kind = (lat + f[1]*lon + f[2]) % 4.
SeriesKinds == 0..3
FieldChoices == SeriesKinds \X SeriesKinds
FieldExtraDays == {0, 1}
GridPoints == (0..(NumLat - 1)) \X (0..(NumLon - 1))

KindWindow(kind) == [dw \in 0..(WinLen - 1) |-> IF dw < WinLen - kind THEN Peak ELSE Base]

FieldOf(f, e) ==
  [t \in 0..(DaysPerYear * 2 + e - 1) |->
     [lat \in 0..(NumLat - 1) |->
        [lon \in 0..(NumLon - 1) |->
           DayValue(2, 100, KindWindow((lat + f[1] * lon + f[2]) % Cardinality(SeriesKinds)),
                    "none", t)]]]

VARIABLES
  time_series,   \* compute_SREs: the argument; return_data_all: the field read
  percentiles,   \* compute_SREs: the argument percentiles
  min_length,    \* the argument min_length (of compute_SREs, of count_occurrences)
  max_length,    \* the argument max_length
  pc,            \* where the program is
  pidx,          \* the loop over the percentiles: the next one, from 1
  reshaped_rsds, \* compute_SREs: reshaped_rsds, Empty before reshape returns
  output,        \* the entries output[percentile] written so far, in order
  arr,           \* count_and_replace: the argument arr
  result,        \* count_and_replace: the returned array
  counts,        \* count_occurrences: the returned array
  visits,        \* count_and_replace: reads of arr[j] by the inner while loop
  rsds_all,      \* Get_SREs_maps: the field, rsds_all[t][lat][lon]
  number_of_extreme_events, \* Get_SREs_maps: [p][lat][lon][L]
  swept,         \* the grid points whose loop iteration has completed
  count,         \* Get_SREs_maps: the progress counter
  saved,         \* the array written by pickle.dump, Empty before
  n_years,       \* get_seasons_masks: the argument n_years
  masks,         \* get_seasons_masks: masks[season], Empty before it is created
  step           \* get_seasons_masks: the next of the slice assignments, from 1

engineVars == <<time_series, percentiles, min_length, max_length, pidx, reshaped_rsds, output>>
runsVars == <<arr, result, counts, visits>>
sweepVars == <<rsds_all, number_of_extreme_events, swept, count, saved>>
seasonVars == <<n_years, masks, step>>
vars == <<engineVars, runsVars, sweepVars, seasonVars, pc>>

\* ------------------------------------------------------------ compute_SREs, one call
EngineIdle ==
  /\ time_series = Empty /\ percentiles = Empty /\ pidx = 1
  /\ reshaped_rsds = Empty /\ output = Empty
RunsIdle ==
  /\ arr = Empty /\ result = Empty /\ counts = Empty /\ visits = Empty
SweepIdle ==
  /\ rsds_all = Empty /\ number_of_extreme_events = Empty /\ swept = {}
  /\ count = 0 /\ saved = Empty
SeasonsIdle ==
  /\ n_years = 0 /\ masks = Empty /\ step = 1

Init ==
  /\ \E n \in YearCounts, e \in ExtraDays, off \in Offsets, w \in Windows,
        missing \in MissingKinds, call \in CallChoices :
        /\ Tried(n, e, off, missing, call)
        /\ time_series = SeriesOf(n, e, off, w, missing)
        /\ percentiles = call[1] /\ min_length = call[2] /\ max_length = call[3]
  /\ pc = "call"
  /\ pidx = 1
  /\ reshaped_rsds = Empty
  /\ output = Empty
  /\ RunsIdle
  /\ SweepIdle
  /\ SeasonsIdle

\* reshaped_rsds = reshape(rsds): raises, or the loop is entered
Enter ==
  /\ pc = "call"
  /\ IF reshape_raises(time_series)
     THEN pc' = "raised" /\ UNCHANGED reshaped_rsds
     ELSE pc' = "loop" /\ reshaped_rsds' = reshape(time_series)
  /\ UNCHANGED <<time_series, percentiles, min_length, max_length, pidx, output,
                 runsVars, sweepVars, seasonVars>>

\* for i, percentile in enumerate(percentiles): one iteration
Iterate ==
  /\ pc = "loop"
  /\ pidx <= Len(percentiles)
  /\ output' = Append(output,
                 PercentileBody(time_series, reshaped_rsds, percentiles[pidx],
                                min_length, max_length))
  /\ pidx' = pidx + 1
  /\ UNCHANGED <<time_series, percentiles, min_length, max_length, reshaped_rsds, pc,
                 runsVars, sweepVars, seasonVars>>

\* return output
Return ==
  /\ pc = "loop"
  /\ pidx > Len(percentiles)
  /\ pc' = "returned"
  /\ UNCHANGED <<engineVars, runsVars, sweepVars, seasonVars>>

Next == Enter \/ Iterate \/ Return

Spec == Init /\ [][Next]_vars

\* the whole call: the ValueError of reshape, or the returned dictionary
compute_SREs_raises(rsds) == reshape_raises(rsds)
compute_SREs(rsds, pcts, mn, mx) ==
  [k \in 1..Len(pcts) |-> PercentileBody(rsds, reshape(rsds), pcts[k], mn, mx)]

\* ------------------------------------------------------------ the run encoder and the histogram alone
InitRuns ==
  /\ arr \in Masks
  /\ min_length \in 0..MinRunFloor
  /\ max_length \in 0..MaxBucket
  /\ result = Empty
  /\ counts = Empty
  /\ visits = Empty
  /\ pc = "mask"
  /\ EngineIdle
  /\ SweepIdle
  /\ SeasonsIdle

\* result = count_and_replace(arr)
Encode ==
  /\ pc = "mask"
  /\ result' = count_and_replace(arr)
  /\ visits' = CountingVisits(arr)
  /\ pc' = "encoded"
  /\ UNCHANGED <<arr, counts, engineVars, sweepVars, seasonVars>>

\* counts = count_occurrences(result, min_length, max_length)
Count ==
  /\ pc = "encoded"
  /\ counts' = count_occurrences(result, min_length, max_length)
  /\ pc' = "counted"
  /\ UNCHANGED <<arr, result, visits, engineVars, sweepVars, seasonVars>>

NextRuns == Encode \/ Count

SpecRuns == InitRuns /\ [][NextRuns]_vars

\* ------------------------------------------------------------ Get_SREs_maps: the grid sweep
\* rsds_all[:, lat_index, lon_index]
TimeSlice(field, lat, lon) == [t \in DOMAIN field |-> field[t][lat][lon]]

\* sum of f over lo..hi
RECURSIVE SumRange(_, _, _)
SumRange(f, lo, hi) ==
  IF lo > hi THEN 0
  ELSE IF lo = hi THEN f[lo]
  ELSE LET mid == (lo + hi) \div 2
       IN SumRange(f, lo, mid) + SumRange(f, mid + 1, hi)

\* np.sum(extreme_events_per_day, axis = 0)
SumOverDays(extreme_events_per_day, mx) ==
  [L \in 0..mx |->
     SumRange([day \in 0..(DaysPerYear - 1) |-> extreme_events_per_day[day][L]],
              0, DaysPerYear - 1)]

\* np.zeros((len(percentiles), number_lat, number_lon, max_length + 1))
ZeroMaps ==
  [p \in 0..(Len(MapPercentiles) - 1) |->
     [lat \in 0..(NumLat - 1) |->
        [lon \in 0..(NumLon - 1) |-> [L \in 0..MapMaxLength |-> 0]]]]

\* as WriteCell, but the whole row lat_index is written
WriteCell_row(maps, lat, lon, output_SREs) ==
  [p \in DOMAIN maps |->
     [maps[p] EXCEPT ![lat] =
        [j \in DOMAIN maps[p][lat] |->
           SumOverDays(output_SREs[p + 1].extreme_events_per_day, MapMaxLength)]]]

\* number_of_extreme_events[p, lat_index, lon_index, :] = ..., for every p
WriteCell(maps, lat, lon, output_SREs) ==
  [p \in DOMAIN maps |->
     [maps[p] EXCEPT ![lat][lon] =
        SumOverDays(output_SREs[p + 1].extreme_events_per_day, MapMaxLength)]]

InitSweep ==
  /\ \E f \in FieldChoices, e \in FieldExtraDays : time_series = FieldOf(f, e)
  /\ rsds_all = Empty
  /\ number_of_extreme_events = Empty
  /\ swept = {}
  /\ count = 0
  /\ saved = Empty
  /\ pc = "load"
  /\ min_length = MapMinLength
  /\ max_length = MapMaxLength
  /\ percentiles = MapPercentiles /\ pidx = 1
  /\ reshaped_rsds = Empty /\ output = Empty
  /\ RunsIdle
  /\ SeasonsIdle

\* rsds_all = return_data_all(...): the field that was read is returned when
\* its time axis is a whole number of years, and False otherwise; the script
\* then ends at rsds_all.shape, before the maps are allocated.  Otherwise the
\* maps are allocated and count is set to 0.
Load ==
  /\ pc = "load"
  /\ IF Size(time_series) % DaysPerYear = 0
       THEN /\ rsds_all' = time_series
            /\ number_of_extreme_events' = ZeroMaps
            /\ pc' = "sweep"
       ELSE /\ pc' = "crashed"
            /\ UNCHANGED <<rsds_all, number_of_extreme_events>>
  /\ count' = 0
  /\ UNCHANGED <<swept, saved, engineVars, runsVars, seasonVars>>

\* one iteration of the loops over lat_index and lon_index.  The script takes
\* the grid points in row-major order; here any grid point that is still to do
\* may be next, so that every order of the sweep is a behaviour.
SweepPoint(lat, lon) ==
  /\ pc = "sweep"
  /\ <<lat, lon>> \notin swept
  /\ \E rsds \in {TimeSlice(rsds_all, lat, lon)} :
       /\ ~compute_SREs_raises(rsds)
       /\ \E output_SREs \in {compute_SREs(rsds, percentiles, min_length, max_length)} :
            number_of_extreme_events' =
              WriteCell(number_of_extreme_events, lat, lon, output_SREs)
  /\ swept' = swept \cup {<<lat, lon>>}
  /\ count' = count + 1
  /\ UNCHANGED <<rsds_all, saved, pc, engineVars, runsVars, seasonVars>>

\* pickle.dump(number_of_extreme_events, f), after the loops
Save ==
  /\ pc = "sweep"
  /\ swept = GridPoints
  /\ saved' = number_of_extreme_events
  /\ pc' = "saved"
  /\ UNCHANGED <<rsds_all, number_of_extreme_events, swept, count, engineVars, runsVars, seasonVars>>

NextSweep ==
  \/ Load
  \/ \E pt \in GridPoints : SweepPoint(pt[1], pt[2])
  \/ Save

SpecSweep == InitSweep /\ [][NextSweep]_vars

\* ------------------------------------------------------------ get_seasons_masks
seasons == <<"Winter", "Spring", "Summer", "Autumn">>

\* the statements masks[season][lo:hi] = 1, in the order of the source
SliceAssignments ==
  << <<"Winter", 0, 59>>, <<"Winter", 334, 365>>, <<"Spring", 59, 152>>,
     <<"Summer", 152, 244>>, <<"Autumn", 244, 334>> >>

\* mask[lo:hi] = 1
SliceAssign(mask, lo, hi) ==
  [d \in DOMAIN mask |-> IF lo <= d /\ d < hi THEN 1 ELSE mask[d]]

InitSeasons ==
  /\ n_years \in 0..MaxSeasonYears
  /\ masks = Empty
  /\ step = 1
  /\ pc = "seasons"
  /\ EngineIdle /\ min_length = 0 /\ max_length = 0
  /\ RunsIdle
  /\ SweepIdle

\* masks = {season: np.zeros(365, dtype=int)}
Allocate ==
  /\ pc = "seasons"
  /\ masks' = [season \in {seasons[k] : k \in DOMAIN seasons} |->
                 [d \in 0..(DaysPerYear - 1) |-> 0]]
  /\ pc' = "assign"
  /\ UNCHANGED <<n_years, step, engineVars, runsVars, sweepVars>>

\* the next statement masks[season][lo:hi] = 1
AssignSlice ==
  /\ pc = "assign"
  /\ step <= Len(SliceAssignments)
  /\ LET a == SliceAssignments[step]
     IN  masks' = [masks EXCEPT ![a[1]] = SliceAssign(masks[a[1]], a[2], a[3])]
  /\ step' = step + 1
  /\ UNCHANGED <<n_years, pc, engineVars, runsVars, sweepVars>>

\* masks = {season: np.tile(mask, n_years) ...}; return seasons, masks
TileAndReturn ==
  /\ pc = "assign"
  /\ step > Len(SliceAssignments)
  /\ masks' = [season \in DOMAIN masks |-> tile(masks[season], n_years)]
  /\ pc' = "seasons_returned"
  /\ UNCHANGED <<n_years, step, engineVars, runsVars, sweepVars>>

NextSeasons == Allocate \/ AssignSlice \/ TileAndReturn

SpecSeasons == InitSeasons /\ [][NextSeasons]_vars

\* ------------------------------------------------------------ properties
\* the sum of f over its domain 0..n-1
Total(f) == SumRange(f, 0, Size(f) - 1)

\* index i is the first index of a maximal run of L consecutive 1s of m
RunStartsAt(m, i, L) ==
  /\ L >= 1
  /\ i + L <= Size(m)
  /\ \A k \in i..(i + L - 1) : m[k] = 1
  /\ (i = 0 \/ m[i - 1] # 1)
  /\ (i + L = Size(m) \/ m[i + L] # 1)

\* day i of m lies in a run of at least three consecutive 1s
InLongRun(m, i) ==
  \E a \in (i - 2)..i :
     a >= 0 /\ a + 2 < Size(m) /\ m[a] = 1 /\ m[a + 1] = 1 /\ m[a + 2] = 1

\* C1: count_and_replace(m) has the length of m; it holds L at the first index
\* of every maximal run of L consecutive 1s of m, and 0 at every other index.
C1_RunEncoding ==
  pc \in {"encoded", "counted"} =>
    /\ DOMAIN result = DOMAIN arr
    /\ \A i \in DOMAIN arr :
         /\ \A L \in 1..Size(arr) : RunStartsAt(arr, i, L) => result[i] = L
         /\ (~\E L \in 1..Size(arr) : RunStartsAt(arr, i, L)) => result[i] = 0

\* a mask with a run of at least two days that does not start the mask, and a later run
C1_Witness ==
  /\ pc = "encoded"
  /\ \E i, j \in DOMAIN arr : 0 < i /\ i < j /\ result[i] >= 2 /\ result[j] >= 1

\* C2: with 1 <= min_length <= max_length, row d of extreme_events_per_day
\* holds, in every bucket v of min_length..max_length, the number of years y
\* with SREs_all_years[d + 365*y] = v, and 0 in every other bucket.
C2_PerDayCounts ==
  (pc = "returned" /\ 1 <= min_length /\ min_length <= max_length) =>
    \A k \in DOMAIN output :
      \A d \in 0..364 :
        /\ DOMAIN output[k].extreme_events_per_day[d] = 0..max_length
        /\ \A v \in 0..max_length :
             output[k].extreme_events_per_day[d][v] =
               IF min_length <= v
               THEN Cardinality({y \in 0..((Size(time_series) \div 365) - 1) :
                                   output[k].SREs_all_years[d + 365 * y] = v})
               ELSE 0

\* one calendar day starts a run of the same length in two years
C2_Witness ==
  /\ pc = "returned"
  /\ 1 <= min_length
  /\ \E k \in DOMAIN output : \E d \in 0..364 : \E v \in min_length..max_length :
       output[k].extreme_events_per_day[d][v] = 2

\* C3: the exceedance mask is 1 exactly where the percentile is above 50 and
\* the value is greater than its threshold, or the percentile is at most 50
\* and the value is less than its threshold; an equal value is never flagged.
\* (thresholds_all_years holds the thresholds times 100.)
C3_ExceedanceDirection ==
  pc = "returned" =>
  \A k \in DOMAIN output :
    \A i \in DOMAIN time_series :
      LET p == output[k].percentile
          v == time_series[i]
          t == output[k].thresholds_all_years[i]
          above == v >= 0 /\ t >= 0 /\ 100 * v > t
          below == v >= 0 /\ t >= 0 /\ 100 * v < t
          flag == output[k].rsds_all_years_above[i]
      IN /\ flag \in {0, 1}
         /\ flag = 1 <=> ((p > 50 /\ above) \/ (p <= 50 /\ below))
         /\ p = 50 => (flag = 1 <=> below)
         /\ 100 * v = t => flag = 0

\* percentile 50 has flagged a day, and left a day that equals its threshold
C3_Witness ==
  pc = "returned" /\
  \E k \in DOMAIN output :
    /\ output[k].percentile = 50
    /\ \E i \in DOMAIN time_series : output[k].rsds_all_years_above[i] = 1
    /\ \E i \in DOMAIN time_series :
         100 * time_series[i] = output[k].thresholds_all_years[i]

\* C4: a series is accepted exactly when its length is a multiple of 365;
\* otherwise the call raises before anything is computed and returns nothing;
\* an accepted series is reshaped so that entry (y, d) is series[365*y + d].
C4_LengthValidation ==
  /\ pc \in {"loop", "returned"} =>
       /\ Size(time_series) % 365 = 0
       /\ DOMAIN reshaped_rsds = 0..((Size(time_series) \div 365) - 1)
       /\ \A y \in DOMAIN reshaped_rsds :
            /\ DOMAIN reshaped_rsds[y] = 0..364
            /\ \A d \in 0..364 : reshaped_rsds[y][d] = time_series[365 * y + d]
  /\ pc = "raised" => Size(time_series) % 365 # 0
  /\ Size(time_series) % 365 # 0 =>
       /\ pc \in {"call", "raised"}
       /\ reshaped_rsds = Empty
       /\ output = Empty

\* a series of 1000 days has been refused
C4_Witness ==
  /\ pc = "raised"
  /\ Size(time_series) = 1000
  /\ output = Empty

\* C5: whatever min_length is, every non-zero value of SREs_all_years is at
\* least 3, buckets 1 and 2 of every row of extreme_events_per_day are 0, and
\* the values of SREs_all_years add up to the number of exceedance days that
\* lie in a run of at least 3 days.
C5_MinRunFloor ==
  pc = "returned" =>
  \A k \in DOMAIN output :
    /\ \A i \in DOMAIN output[k].SREs_all_years :
         output[k].SREs_all_years[i] = 0 \/ output[k].SREs_all_years[i] >= 3
    /\ \A d \in 0..364 : \A v \in {1, 2} \cap (0..max_length) :
         output[k].extreme_events_per_day[d][v] = 0
    /\ Total(output[k].SREs_all_years) =
         Cardinality({i \in DOMAIN time_series :
                        InLongRun(output[k].rsds_all_years_above, i)})

\* min_length below 3; a mask with a run that is kept and a day in a shorter run
C5_Witness ==
  /\ pc = "returned"
  /\ min_length < 3
  /\ \E k \in DOMAIN output :
       /\ \E i \in DOMAIN time_series : output[k].SREs_all_years[i] >= 3
       /\ \E j \in DOMAIN time_series :
            /\ output[k].rsds_all_years_above[j] = 1
            /\ ~InLongRun(output[k].rsds_all_years_above, j)

\* C6: with min_length = 0, bucket 0 of count_occurrences(count_and_replace(m),
\* 0, max_length) is the number of 0 entries of m.
C6_FalseZerosRemoved ==
  (pc = "counted" /\ min_length = 0) =>
    counts[0] = Cardinality({i \in DOMAIN arr : arr[i] = 0})

\* the histograms of grid point pt, for every percentile
Cell(maps, pt) == [p \in DOMAIN maps |-> maps[p][pt[1]][pt[2]]]

\* cell holds the histograms that compute_SREs yields for the series rsds alone
IsPointResult(cell, rsds) ==
  \A output_SREs \in {compute_SREs(rsds, MapPercentiles, MapMinLength, MapMaxLength)} :
    /\ DOMAIN cell = 0..(Len(MapPercentiles) - 1)
    /\ \A p \in DOMAIN cell :
         cell[p] = SumOverDays(output_SREs[p + 1].extreme_events_per_day, MapMaxLength)

\* the cell of a grid point is all-zero until the point is swept, its progress
\* is counted once, and equal series have equal cells
C7_OwnCellOnly ==
  pc \in {"sweep", "saved"} =>
    /\ count = Cardinality(swept)
    /\ \A pt \in GridPoints \ swept :
         \A p \in DOMAIN number_of_extreme_events : \A L \in 0..MapMaxLength :
           number_of_extreme_events[p][pt[1]][pt[2]][L] = 0
    /\ \A pt, q \in swept :
         TimeSlice(rsds_all, pt[1], pt[2]) = TimeSlice(rsds_all, q[1], q[2])
           => Cell(number_of_extreme_events, pt) = Cell(number_of_extreme_events, q)

\* whatever the order was, the saved cell of a grid point is what its own
\* series yields
C7_SavedIsPointwise ==
  pc = "saved" =>
    \A pt \in GridPoints :
      \A rsds \in {TimeSlice(rsds_all, pt[1], pt[2])} :
        IsPointResult(Cell(saved, pt), rsds)

\* a step leaves every cell but that of the grid point it sweeps as it was
C7_WrittenOnce ==
  \A pt \in GridPoints :
    (pt \in swept \/ pt \notin swept')
      => Cell(number_of_extreme_events', pt) = Cell(number_of_extreme_events, pt)

\* C7: sweeping a grid point reads its own series and writes its own cell
\* only, once; the saved histogram is the same for every order of the sweep,
\* and grid points with the same series get the same histograms.
C7_SweepOrderIndependent ==
  /\ [](C7_OwnCellOnly /\ C7_SavedIsPointwise)
  /\ [][pc = "sweep" => C7_WrittenOnce]_vars

\* a sweep has been saved in which two grid points got different histograms
C7_Witness ==
  /\ pc = "saved"
  /\ \E pt, q \in GridPoints : Cell(saved, pt) # Cell(saved, q)

\* the loops are only entered with a field whose time axis is a whole number of
\* years, so that compute_SREs raises at no grid point
SweepNeverRaises ==
  pc = "sweep" =>
    \A pt \in GridPoints : ~compute_SREs_raises(TimeSlice(rsds_all, pt[1], pt[2]))

\* the days of the exceedance mask m that are flagged
Flagged(m) == {i \in DOMAIN m : m[i] = 1}

\* C9: when the flagged days are one run of L days from index s on, with
\* 3 <= L and 1 <= min_length <= L <= max_length, SREs_all_years is L at s and
\* 0 elsewhere, and the only non-zero entry of extreme_events_per_day is a 1
\* at row s mod 365, bucket L.
C9_SingleRun ==
  pc = "returned" =>
    \A k \in DOMAIN output :
      \A F \in {Flagged(output[k].rsds_all_years_above)} :
        \A s \in {IF F = {} THEN 0 ELSE Min(F)} : \A L \in {Cardinality(F)} :
          (/\ F = s..(s + L - 1)
           /\ 3 <= L /\ 1 <= min_length /\ min_length <= L /\ L <= max_length)
          => /\ \A i \in DOMAIN time_series :
                  output[k].SREs_all_years[i] = IF i = s THEN L ELSE 0
             /\ \A d \in 0..364 : \A v \in 0..max_length :
                  output[k].extreme_events_per_day[d][v] =
                    IF d = s % 365 /\ v = L THEN 1 ELSE 0

\* two years, percentile 95, days 100 to 104 of the first year flagged
C9_Witness ==
  /\ pc = "returned"
  /\ Size(time_series) = 730
  /\ max_length >= 5 /\ min_length >= 1
  /\ \E k \in DOMAIN output :
       /\ output[k].percentile = 95
       /\ Flagged(output[k].rsds_all_years_above) = 100..104
       /\ output[k].SREs_all_years[100] = 5
       /\ output[k].extreme_events_per_day[100][5] = 1

\* the years of the series
Years == 0..((Size(time_series) \div 365) - 1)

\* calendar day d is missing in every year
AllMissing(d) == \A y \in Years : time_series[d + 365 * y] < 0

\* the values of calendar day d that are not missing, as a set of <<year, value>>
DayValues(d) == {<<y, time_series[d + 365 * y]>> : y \in {z \in Years : time_series[d + 365 * z] >= 0}}

\* x is the j-th smallest (from 0) of the values V
IsKthSmallest(V, j, x) ==
  /\ \E e \in V : e[2] = x
  /\ Cardinality({e \in V : e[2] < x}) <= j
  /\ j < Cardinality({e \in V : e[2] <= x})

\* t is 100 times the q-th percentile (linear interpolation) of the values of
\* calendar day d that are not missing
IsDayPercentile100(d, q, t) ==
  \A V \in {DayValues(d)} :
    \A pos \in {q * (Cardinality(V) - 1)} :
      \E a, b \in {e[2] : e \in V} :
        /\ IsKthSmallest(V, pos \div 100, a)
        /\ IsKthSmallest(V, IF pos \div 100 + 1 < Cardinality(V)
                            THEN pos \div 100 + 1 ELSE pos \div 100, b)
        /\ t = 100 * a + (pos % 100) * (b - a)

\* C10: missing values never make the call fail; a calendar day that is
\* missing in every year has a missing threshold in every year and is never
\* flagged nor the start of a run; every other calendar day has the percentile
\* of its own values as its threshold and is flagged by comparison with it.
C10_MissingColumn ==
  /\ pc = "raised" => Size(time_series) % 365 # 0
  /\ pc = "returned" =>
       \A k \in DOMAIN output : \A d \in 0..364 :
         IF AllMissing(d)
         THEN \A y \in Years :
                /\ output[k].thresholds_all_years[d + 365 * y] < 0
                /\ output[k].rsds_all_years_above[d + 365 * y] = 0
                /\ output[k].SREs_all_years[d + 365 * y] = 0
         ELSE \A t \in {output[k].thresholds_all_years[d]} :
                /\ IsDayPercentile100(d, output[k].percentile, t)
                /\ \A y \in Years :
                     LET v == time_series[d + 365 * y]
                         p == output[k].percentile
                     IN /\ output[k].thresholds_all_years[d + 365 * y] = t
                        /\ output[k].rsds_all_years_above[d + 365 * y] = 1
                             <=> (v >= 0 /\ ((p > 50 /\ 100 * v > t)
                                             \/ (p <= 50 /\ 100 * v < t)))

\* a calendar day is missing in every year, and a run of other days is found
C10_Witness ==
  /\ pc = "returned"
  /\ \E d \in 0..364 : AllMissing(d)
  /\ \E k \in DOMAIN output : \E i \in DOMAIN time_series :
       output[k].SREs_all_years[i] >= 3

\* C12: count_and_replace examines each index of its input at most once for
\* run-length counting.
C12_SinglePass ==
  pc \in {"encoded", "counted"} => \A j \in DOMAIN arr : visits[j] <= 1

\* the indices i before j from which the ones reach j without a gap
OnesReaching(m, j) == {i \in DOMAIN m : i < j /\ \A k \in i..(j - 1) : m[k] = 1}

\* C12, as the code has it: the counting loop restarts at every index of a
\* run, so index j is read once for every index of the stretch of ones that
\* ends just before j; the returned encoding is that of the run's first index.
C12_VisitsPerRunIndex ==
  pc \in {"encoded", "counted"} =>
    /\ DOMAIN visits = DOMAIN arr
    /\ \A j \in DOMAIN arr : visits[j] = Cardinality(OnesReaching(arr, j))

\* an index read three times: the last day of a run of four days
C12_Witness ==
  /\ pc = "encoded"
  /\ \E j \in DOMAIN arr :
       /\ visits[j] = 3
       /\ RunStartsAt(arr, j - 3, 4)

\* the number of entries of enc that are v
Occurrences(enc, v) == Cardinality({i \in DOMAIN enc : enc[i] = v})

\* what count_occurrences(enc, mn, mx) returns, bucket by bucket: the entries
\* equal to v for mn <= v <= mx, bucket 0 less (L - 1) for every entry L of
\* 2..mx when mn = 0
WholeCounts(enc, mn, mx) ==
  [v \in 0..mx |->
     IF v < mn THEN 0
     ELSE IF v = 0
     THEN Occurrences(enc, 0) -
          SumRange([L \in 0..mx |-> IF L >= 2 THEN Occurrences(enc, L) * (L - 1) ELSE 0], 0, mx)
     ELSE Occurrences(enc, v)]

\* count_occurrences returns WholeCounts of its argument
CountOccurrencesIsWholeCounts ==
  pc = "counted" => counts = WholeCounts(result, min_length, max_length)

\* C13: summed over the 365 calendar days, extreme_events_per_day is
\* count_occurrences of the whole SREs_all_years; in every bucket L with
\* 3 <= L and min_length <= L <= max_length the sum is the number of maximal
\* runs of L flagged days of the whole series, year boundaries included.
C13_RebinningPreservesCounts ==
  pc = "returned" =>
    \A k \in DOMAIN output :
      \A histogram \in {SumOverDays(output[k].extreme_events_per_day, max_length)} :
        /\ histogram = WholeCounts(output[k].SREs_all_years, min_length, max_length)
        /\ \A L \in 3..max_length :
             min_length <= L =>
               histogram[L] =
                 Cardinality({i \in DOMAIN time_series :
                                RunStartsAt(output[k].rsds_all_years_above, i, L)})

\* a run of at least three days that starts in the last two days of a year
\* and ends in the next year has been counted
C13_Witness ==
  /\ pc = "returned"
  /\ \E k \in DOMAIN output : \E i \in {363, 364} : \E L \in 3..max_length :
       /\ min_length <= L
       /\ RunStartsAt(output[k].rsds_all_years_above, i, L)
       /\ SumOverDays(output[k].extreme_events_per_day, max_length)[L] >= 1

\* C14: every entry of every row of extreme_events_per_day returned by
\* compute_SREs is a non-negative count.
C14_NonNegativeCounts ==
  pc = "returned" =>
    \A k \in DOMAIN output : \A d \in 0..364 : \A v \in 0..max_length :
      output[k].extreme_events_per_day[d][v] >= 0

\* the days of the months of the 365-day calendar, day 0 being 1 January
MonthLengths == <<31, 28, 31, 30, 31, 30, 31, 31, 30, 31, 30, 31>>

RECURSIVE FirstDayOfMonth(_)
FirstDayOfMonth(mo) == IF mo = 1 THEN 0 ELSE FirstDayOfMonth(mo - 1) + MonthLengths[mo - 1]

\* the month, 1..12, of day d of the year
MonthOf(d) ==
  CHOOSE mo \in 1..12 : FirstDayOfMonth(mo) <= d /\ d < FirstDayOfMonth(mo) + MonthLengths[mo]

\* the months of each season
SeasonMonths ==
  [season \in {"Winter", "Spring", "Summer", "Autumn"} |->
     CASE season = "Spring" -> {3, 4, 5}
       [] season = "Summer" -> {6, 7, 8}
       [] season = "Autumn" -> {9, 10, 11}
       [] season = "Winter" -> {12, 1, 2}]

\* C11: get_seasons_masks(n_years) returns four 0/1 masks of length
\* 365 * n_years, of period 365, each marking exactly the days of the three
\* months of its season on the 365-day calendar.
C11_SeasonMasks ==
  pc = "seasons_returned" =>
    /\ DOMAIN masks = {"Winter", "Spring", "Summer", "Autumn"}
    /\ \A season \in DOMAIN masks :
         /\ DOMAIN masks[season] = 0..(365 * n_years - 1)
         /\ \A k \in DOMAIN masks[season] :
              /\ masks[season][k] \in {0, 1}
              /\ masks[season][k] = masks[season][k % 365]
              /\ masks[season][k] = 1 <=> MonthOf(k % 365) \in SeasonMonths[season]

TypeOK == pc \in {"call", "loop", "returned", "raised", "mask", "encoded", "counted",
                  "load", "sweep", "crashed", "saved",
                  "seasons", "assign", "seasons_returned"}
====
